---- MODULE Spec2Model ----
(***************************************************************************)
(* A model of GradTensor.py (a reverse-mode automatic differentiation      *)
(* engine) and of the script main.py that drives it.                       *)
(*                                                                         *)
(* Python objects are modelled by identity: `arrays' is the heap of numpy  *)
(* ndarray objects and `tensors' the heap of GradTensor objects; an object *)
(* is named by its index in its heap.  Every function of GradTensor.py is  *)
(* an operator over a heap record H = [arrays, tensors, err, ret]: `err'   *)
(* is the exception in flight ("none" when there is none; an operator      *)
(* applied while an exception is in flight does nothing, which is how the  *)
(* exception propagates to the caller), and `ret' the returned object.     *)
(***************************************************************************)
EXTENDS Integers, Sequences, FiniteSets, TLC

VARIABLES
    arrays,   \* heap of ndarray objects (values below)
    tensors,  \* heap of GradTensor objects
    names,    \* the caller's bindings: the tensors it constructed or got back
    last,     \* the caller's last call and how it ended
    calls,    \* the backward / zero_grad / buffer-mutation calls made so far
    pc,       \* position in main.py ("api" when the caller is not the script)
    inp       \* the inputs of main.py (np.random.rand, delta)

vars == <<arrays, tensors, names, last, calls, pc, inp>>

(***************************************************************************)
(* Bounds of the model.                                                    *)
(***************************************************************************)
MaxTensors == 3   \* tensors the caller may hold
MaxCalls == 2     \* backward / zero_grad / mutation calls the caller makes
MaxNodes == 4     \* tensors of a graph built for a scalar loss
MaxPasses == 3    \* backward / zero_grad calls made on such a graph
MaxVal == 1       \* matrix entries of the matmul scenario range over 0..MaxVal

None == 0

(***************************************************************************)
(* numpy.  An ndarray is [nd |-> 0 or 2, v |-> rows]: a 0-d array (what    *)
(* ndarray.sum() gives, wrapped by np.array) holds its value at v[1][1].   *)
(***************************************************************************)
Rows(a) == Len(a.v)
Cols(a) == Len(a.v[1])
Shape(a) == IF a.nd = 0 THEN <<>> ELSE <<Rows(a), Cols(a)>>

Mat(v) == [nd |-> 2, v |-> v]
Scalar(x) == [nd |-> 0, v |-> <<<<x>>>>]

Max(x, y) == IF x >= y THEN x ELSE y

\* numpy's broadcasting rule: along each axis the extents are equal or one is 1
Broadcastable(a, b) ==
    /\ (Rows(a) = Rows(b) \/ Rows(a) = 1 \/ Rows(b) = 1)
    /\ (Cols(a) = Cols(b) \/ Cols(a) = 1 \/ Cols(b) = 1)

At(a, i, j) == a.v[IF Rows(a) = 1 THEN 1 ELSE i][IF Cols(a) = 1 THEN 1 ELSE j]

\* the broadcast result of an elementwise operation whose entries are e[i][j]
BroadcastResult(a, b, e) ==
    [nd |-> Max(a.nd, b.nd),
     v  |-> [i \in 1..Max(Rows(a), Rows(b)) |->
                [j \in 1..Max(Cols(a), Cols(b)) |-> e[i][j]]]]

np_add(a, b) ==
    BroadcastResult(a, b, [i \in 1..Max(Rows(a), Rows(b)) |->
                            [j \in 1..Max(Cols(a), Cols(b)) |-> At(a, i, j) + At(b, i, j)]])
np_mul(a, b) ==
    BroadcastResult(a, b, [i \in 1..Max(Rows(a), Rows(b)) |->
                            [j \in 1..Max(Cols(a), Cols(b)) |-> At(a, i, j) * At(b, i, j)]])
np_neg(a) == [a EXCEPT !.v = [i \in 1..Rows(a) |-> [j \in 1..Cols(a) |-> 0 - a.v[i][j]]]]
zeros_like(a) == [a EXCEPT !.v = [i \in 1..Rows(a) |-> [j \in 1..Cols(a) |-> 0]]]
ones_like(a) == [a EXCEPT !.v = [i \in 1..Rows(a) |-> [j \in 1..Cols(a) |-> 1]]]
np_T(a) ==
    IF a.nd = 0 THEN a
    ELSE Mat([j \in 1..Cols(a) |-> [i \in 1..Rows(a) |-> a.v[i][j]]])

RECURSIVE SumTo(_, _)
SumTo(f, n) == IF n = 0 THEN 0 ELSE f[n] + SumTo(f, n - 1)

\* a.sum(): the full reduction, a 0-d array once np.array wraps it
np_sum(a) == Scalar(SumTo([i \in 1..Rows(a) |-> SumTo(a.v[i], Cols(a))], Rows(a)))

\* a @ b is defined for 2-d operands with matching inner extents
MatmulOk(a, b) == a.nd = 2 /\ b.nd = 2 /\ Cols(a) = Rows(b)
np_matmul(a, b) ==
    Mat([i \in 1..Rows(a) |-> [j \in 1..Cols(b) |->
            SumTo([k \in 1..Cols(a) |-> a.v[i][k] * b.v[k][j]], Cols(a))]])

(***************************************************************************)
(* The heap record threaded through the functions of GradTensor.py.        *)
(***************************************************************************)
Heap(a, t) == [arrays |-> a, tensors |-> t, err |-> "none", ret |-> None]
Raise(H, e) == [H EXCEPT !.err = e, !.ret = None]

Data(H, t) == H.arrays[H.tensors[t].data]

\* The `data' argument of GradTensor(...): an existing ndarray object (main.py
\* passes tensor_w.data) or a temporary just computed (ref = None).
Existing(H, a) == [ref |-> a, val |-> H.arrays[a]]
Temp(v) == [ref |-> None, val |-> v]

\* np.asarray in place of np.array: an existing ndarray is shared, not copied
np_asarray(H, data) ==
    IF data.ref # None THEN [H EXCEPT !.ret = data.ref]
    ELSE [H EXCEPT !.arrays = Append(@, data.val), !.ret = Len(H.arrays) + 1]

\* np.array(data): always a new ndarray object holding a copy
np_array(H, data) ==
    [H EXCEPT !.arrays = Append(@, data.val), !.ret = Len(H.arrays) + 1]

\* zero_grad that allocates only when there is no grad yet
zero_grad_lazy(H, self) ==
    IF H.err # "none" THEN H
    ELSE IF ~H.tensors[self].requires_grad THEN Raise(H, "AssertionError")
    ELSE IF H.tensors[self].grad # None THEN [H EXCEPT !.ret = None]
    ELSE LET H1 == np_array(H, Temp(zeros_like(Data(H, self))))
             g == Len(H1.tensors) + 1
         IN [H1 EXCEPT !.tensors = Append(@, [data |-> H1.ret, requires_grad |-> FALSE,
                                               grad |-> None, depends_on |-> <<>>]),
                       !.tensors[self].grad = g, !.ret = None]

\* zero_grad without its assertion
zero_grad_unchecked(H, self) ==
    IF H.err # "none" THEN H
    ELSE LET H1 == np_array(H, Temp(zeros_like(Data(H, self))))
             g == Len(H1.tensors) + 1
         IN [H1 EXCEPT !.tensors = Append(@, [data |-> H1.ret, requires_grad |-> FALSE,
                                               grad |-> None, depends_on |-> <<>>]),
                       !.tensors[self].grad = g, !.ret = None]

\* GradTensor.zero_grad: self.grad = GradTensor(np.zeros_like(self.data)), a
\* new GradTensor (requires_grad False, so its own __init__ stops there).
zero_grad(H, self) ==
    IF H.err # "none" THEN H
    ELSE IF ~H.tensors[self].requires_grad THEN Raise(H, "AssertionError")
    ELSE LET H1 == np_array(H, Temp(zeros_like(Data(H, self))))
             g == Len(H1.tensors) + 1
         IN [H1 EXCEPT !.tensors = Append(@, [data |-> H1.ret, requires_grad |-> FALSE,
                                               grad |-> None, depends_on |-> <<>>]),
                       !.tensors[self].grad = g, !.ret = None]

\* GradTensor.__init__; ret is the new object.  depends_on = None is written
\* <<>>: the operations never pass an empty list (they pass a list only when
\* an operand requires grad), so the two are told apart by nothing.
GradTensor(H, data, requires_grad, depends_on) ==
    IF H.err # "none" THEN H
    ELSE LET H1 == np_array(H, data)
             self == Len(H1.tensors) + 1
             H2 == [H1 EXCEPT !.tensors = Append(@, [data |-> H1.ret,
                                                     requires_grad |-> requires_grad,
                                                     grad |-> None,
                                                     depends_on |-> depends_on])]
             H3 == IF requires_grad THEN zero_grad(H2, self) ELSE H2
         IN [H3 EXCEPT !.ret = self]

\* Dependency(op, inputs, grad_fn).  grad_fn is a closure: `fn' names the
\* lambda and input1/input2 are the cells it closes over (the parameters of
\* the enclosing operation, that is the operand objects, not their buffers).
Dependency(op, inputs, fn, i1, i2) ==
    [op |-> op, inputs |-> inputs, fn |-> fn, input1 |-> i1, input2 |-> i2]

_neg(H, input) ==
    IF H.err # "none" THEN H
    ELSE LET data == np_neg(Data(H, input))
             requires_grad == H.tensors[input].requires_grad
         IN IF requires_grad
            THEN GradTensor(H, Temp(data), requires_grad,
                            <<Dependency("_neg", input, "neg", input, None)>>)
            ELSE GradTensor(H, Temp(data), requires_grad, <<>>)

\* _add with an edge to each operand whether or not it requires grad
_add_alldeps(H, input1, input2) ==
    IF H.err # "none" THEN H
    ELSE IF ~Broadcastable(Data(H, input1), Data(H, input2)) THEN Raise(H, "ValueError")
    ELSE LET data == np_add(Data(H, input1), Data(H, input2))
             requires_grad == H.tensors[input1].requires_grad
                                \/ H.tensors[input2].requires_grad
         IN IF requires_grad
            THEN GradTensor(H, Temp(data), requires_grad,
                            <<Dependency("_add", input1, "add", input1, input2),
                              Dependency("_add", input2, "add", input1, input2)>>)
            ELSE GradTensor(H, Temp(data), requires_grad, <<>>)

\* input1.data + input2.data raises ValueError when numpy cannot broadcast
_add(H, input1, input2) ==
    IF H.err # "none" THEN H
    ELSE IF ~Broadcastable(Data(H, input1), Data(H, input2)) THEN Raise(H, "ValueError")
    ELSE LET data == np_add(Data(H, input1), Data(H, input2))
             requires_grad == H.tensors[input1].requires_grad
                                \/ H.tensors[input2].requires_grad
             dep1 == IF H.tensors[input1].requires_grad
                     THEN <<Dependency("_add", input1, "add", input1, input2)>> ELSE <<>>
             dep2 == IF H.tensors[input2].requires_grad
                     THEN <<Dependency("_add", input2, "add", input1, input2)>> ELSE <<>>
         IN IF requires_grad
            THEN GradTensor(H, Temp(data), requires_grad, dep1 \o dep2)
            ELSE GradTensor(H, Temp(data), requires_grad, <<>>)

\* Both edges carry the one lambda of line 141, grad * input2.data
_mul(H, input1, input2) ==
    IF H.err # "none" THEN H
    ELSE IF ~Broadcastable(Data(H, input1), Data(H, input2)) THEN Raise(H, "ValueError")
    ELSE LET data == np_mul(Data(H, input1), Data(H, input2))
             requires_grad == H.tensors[input1].requires_grad
                                \/ H.tensors[input2].requires_grad
             dep1 == IF H.tensors[input1].requires_grad
                     THEN <<Dependency("_mul", input1, "mul", input1, input2)>> ELSE <<>>
             dep2 == IF H.tensors[input2].requires_grad
                     THEN <<Dependency("_mul", input2, "mul", input1, input2)>> ELSE <<>>
         IN IF requires_grad
            THEN GradTensor(H, Temp(data), requires_grad, dep1 \o dep2)
            ELSE GradTensor(H, Temp(data), requires_grad, <<>>)

\* _mul(grad, input2.data), what `grad * input2.data' of line 141 calls: the
\* second operand is an ndarray, not a GradTensor.  Line 137 multiplies
\* grad.data with the ndarray's .data (its buffer), ValueError when the
\* shapes do not broadcast; then line 138 (or, when grad requires grad and
\* the `or' is short-circuited, line 151) reads input2.requires_grad, which
\* an ndarray does not have.
_mul_ndarray(H, input1, ndarray) ==
    IF H.err # "none" THEN H
    ELSE IF ~Broadcastable(Data(H, input1), H.arrays[ndarray]) THEN Raise(H, "ValueError")
    ELSE Raise(H, "AttributeError")

_matmul(H, input1, input2) ==
    IF H.err # "none" THEN H
    ELSE IF ~MatmulOk(Data(H, input1), Data(H, input2)) THEN Raise(H, "ValueError")
    ELSE LET data == np_matmul(Data(H, input1), Data(H, input2))
             requires_grad == H.tensors[input1].requires_grad
                                \/ H.tensors[input2].requires_grad
             dep1 == IF H.tensors[input1].requires_grad
                     THEN <<Dependency("_matmul", input1, "matmul1", input1, input2)>> ELSE <<>>
             dep2 == IF H.tensors[input2].requires_grad
                     THEN <<Dependency("_matmul", input2, "matmul2", input1, input2)>> ELSE <<>>
         IN IF requires_grad
            THEN GradTensor(H, Temp(data), requires_grad, dep1 \o dep2)
            ELSE GradTensor(H, Temp(data), requires_grad, <<>>)

tensor_sum(H, input) ==
    IF H.err # "none" THEN H
    ELSE LET data == np_sum(Data(H, input))
             requires_grad == H.tensors[input].requires_grad
         IN IF requires_grad
            THEN GradTensor(H, Temp(data), requires_grad,
                            <<Dependency("tensor_sum", input, "sum", input, None)>>)
            ELSE GradTensor(H, Temp(data), requires_grad, <<>>)

\* the matmul rules without their transposes
grad_fn_no_transpose(H, dep, grad) ==
    IF H.err # "none" THEN H
    ELSE CASE dep.fn = "neg" -> _neg(H, grad)
           [] dep.fn = "add" -> [H EXCEPT !.ret = grad]
           [] dep.fn = "mul" -> _mul_ndarray(H, grad, H.tensors[dep.input2].data)
           [] dep.fn = "matmul1" ->
                IF MatmulOk(Data(H, grad), Data(H, dep.input2))
                THEN GradTensor(H, Temp(np_matmul(Data(H, grad), Data(H, dep.input2))),
                                FALSE, <<>>)
                ELSE Raise(H, "ValueError")
           [] dep.fn = "matmul2" ->
                IF MatmulOk(Data(H, dep.input1), Data(H, grad))
                THEN GradTensor(H, Temp(np_matmul(Data(H, dep.input1), Data(H, grad))),
                                FALSE, <<>>)
                ELSE Raise(H, "ValueError")
           [] dep.fn = "sum" ->
                _mul(GradTensor(H, Temp(ones_like(Data(H, dep.input1))), FALSE, <<>>),
                     Len(H.tensors) + 1, grad)

\* dep.grad_fn(grad): the lambdas of lines 91, 109, 141, 174, 184 and 205.
\* Each reads its operand's buffer when it is called.
grad_fn(H, dep, grad) ==
    IF H.err # "none" THEN H
    ELSE CASE dep.fn = "neg" -> _neg(H, grad)
           [] dep.fn = "add" -> [H EXCEPT !.ret = grad]
           [] dep.fn = "mul" -> _mul_ndarray(H, grad, H.tensors[dep.input2].data)
           [] dep.fn = "matmul1" ->
                IF MatmulOk(Data(H, grad), np_T(Data(H, dep.input2)))
                THEN GradTensor(H, Temp(np_matmul(Data(H, grad), np_T(Data(H, dep.input2)))),
                                FALSE, <<>>)
                ELSE Raise(H, "ValueError")
           [] dep.fn = "matmul2" ->
                IF MatmulOk(np_T(Data(H, dep.input1)), Data(H, grad))
                THEN GradTensor(H, Temp(np_matmul(np_T(Data(H, dep.input1)), Data(H, grad))),
                                FALSE, <<>>)
                ELSE Raise(H, "ValueError")
           [] dep.fn = "sum" ->
                _mul(GradTensor(H, Temp(ones_like(Data(H, dep.input1))), FALSE, <<>>),
                     Len(H.tensors) + 1, grad)

\* self.grad = grad in place of self.grad += grad
accumulate_overwrite(H, self, grad) ==
    IF H.err # "none" THEN H ELSE [H EXCEPT !.tensors[self].grad = grad]

\* self.grad += grad.  GradTensor defines __add__ and no __iadd__, so this is
\* self.grad = _add(self.grad, grad): the slot is rebound to a new GradTensor.
accumulate(H, self, grad) ==
    LET H1 == _add(H, H.tensors[self].grad, grad)
    IN IF H1.err # "none" THEN H1 ELSE [H1 EXCEPT !.tensors[self].grad = H1.ret]

RECURSIVE backward(_, _, _), backward_deps(_, _, _, _)

\* GradTensor.backward(grad); grad = None is the default seed
backward(H, self, grad) ==
    IF H.err # "none" THEN H
    ELSE IF ~H.tensors[self].requires_grad THEN Raise(H, "AssertionError")
    ELSE LET H1 == IF grad = None
                   THEN GradTensor(H, Temp(ones_like(Data(H, self))), FALSE, <<>>)
                   ELSE [H EXCEPT !.ret = grad]
             H2 == accumulate(H1, self, H1.ret)
         IN [backward_deps(H2, self, H1.ret, 1) EXCEPT !.ret = None]

\* the loop of lines 79-82, from the k-th dependency on
backward_deps(H, self, grad, k) ==
    IF H.err # "none" \/ k > Len(H.tensors[self].depends_on) THEN H
    ELSE LET dep == H.tensors[self].depends_on[k]
             H1 == grad_fn(H, dep, grad)
             H2 == backward(H1, dep.inputs, H1.ret)
         IN backward_deps(H2, self, grad, k + 1)

(***************************************************************************)
(* The caller.  Each action is one call of the public surface, made on the *)
(* tensors the caller holds; an exception leaves the heap as it was when   *)
(* it was raised and is recorded in `last'.                                *)
(***************************************************************************)
Here == Heap(arrays, tensors)

\* pc = "api": any call on any tensor held; pc = "graph": a graph of
\* differentiable tensors is built and differentiated from a scalar root.
Interactive == pc \in {"api", "graph"}
TensorBudget == IF pc = "graph" THEN MaxNodes ELSE MaxTensors
CallBudget == IF pc = "graph" THEN MaxPasses ELSE MaxCalls

\* a call as the caller saw it; `at' is the number of GradTensor objects that
\* existed when it was made (objects are numbered in order of creation)
Call(name, args, H) ==
    [call |-> name, args |-> args, err |-> H.err, ret |-> H.ret, at |-> Len(tensors)]

\* the buffers a caller may wrap in a leaf tensor (M22 is unipotent, so that
\* repeated products of it stay small)
M22 == Mat(<<<<1, 2>>, <<0, 1>>>>)
M32 == Mat(<<<<1, 0>>, <<2, 1>>, <<0, 3>>>>)
LeafData == {M22, M32}

Held == {names[n] : n \in 1..Len(names)}

Returned(H) == IF H.err = "none" THEN Append(names, H.ret) ELSE names

\* GradTensor(data, requires_grad)
Construct(data, requires_grad) ==
    /\ Interactive /\ Len(names) < TensorBudget
    /\ LET H == GradTensor(Here, Temp(data), requires_grad, <<>>)
       IN /\ arrays' = H.arrays /\ tensors' = H.tensors
          /\ names' = Returned(H)
          /\ last' = Call("GradTensor", <<>>, H)
    /\ UNCHANGED <<calls, pc, inp>>

\* -t
Neg(t) ==
    /\ Interactive /\ Len(names) < TensorBudget
    /\ LET H == _neg(Here, t)
       IN /\ arrays' = H.arrays /\ tensors' = H.tensors
          /\ names' = Returned(H)
          /\ last' = Call("neg", <<t>>, H)
    /\ UNCHANGED <<calls, pc, inp>>

\* t + u
Add(t, u) ==
    /\ Interactive /\ Len(names) < TensorBudget
    /\ LET H == _add(Here, t, u)
       IN /\ arrays' = H.arrays /\ tensors' = H.tensors
          /\ names' = Returned(H)
          /\ last' = Call("add", <<t, u>>, H)
    /\ UNCHANGED <<calls, pc, inp>>

\* t * u
Mul(t, u) ==
    /\ Interactive /\ Len(names) < TensorBudget
    /\ LET H == _mul(Here, t, u)
       IN /\ arrays' = H.arrays /\ tensors' = H.tensors
          /\ names' = Returned(H)
          /\ last' = Call("mul", <<t, u>>, H)
    /\ UNCHANGED <<calls, pc, inp>>

\* t @ u
MatMul(t, u) ==
    /\ Interactive /\ Len(names) < TensorBudget
    /\ LET H == _matmul(Here, t, u)
       IN /\ arrays' = H.arrays /\ tensors' = H.tensors
          /\ names' = Returned(H)
          /\ last' = Call("matmul", <<t, u>>, H)
    /\ UNCHANGED <<calls, pc, inp>>

\* t.sum()
Sum(t) ==
    /\ Interactive /\ Len(names) < TensorBudget
    /\ LET H == tensor_sum(Here, t)
       IN /\ arrays' = H.arrays /\ tensors' = H.tensors
          /\ names' = Returned(H)
          /\ last' = Call("sum", <<t>>, H)
    /\ UNCHANGED <<calls, pc, inp>>

\* t.backward() (seed = None) or t.backward(seed)
Backward(t, seed) ==
    /\ Interactive /\ Len(calls) < CallBudget
    /\ LET H == backward(Here, t, seed)
       IN /\ arrays' = H.arrays /\ tensors' = H.tensors
          /\ last' = Call("backward", <<t, seed>>, H)
          /\ calls' = Append(calls, Call("backward", <<t, seed>>, H))
    /\ UNCHANGED <<names, pc, inp>>

\* t.zero_grad()
ZeroGrad(t) ==
    /\ Interactive /\ Len(calls) < CallBudget
    /\ LET H == zero_grad(Here, t)
       IN /\ arrays' = H.arrays /\ tensors' = H.tensors
          /\ last' = Call("zero_grad", <<t>>, H)
          /\ calls' = Append(calls, Call("zero_grad", <<t>>, H))
    /\ UNCHANGED <<names, pc, inp>>

\* t.data[i, j] += delta: the caller writes into the tensor's buffer in place
\* (main.py line 29, there at [0, 0]; indices count from 1 here)
setitem_add(H, t, i, j, delta) ==
    [H EXCEPT !.arrays[H.tensors[t].data].v[i][j] = @ + delta, !.ret = None]

Mutate(t, i, j, delta) ==
    /\ Interactive /\ Len(calls) < CallBudget
    /\ LET H == setitem_add(Here, t, i, j, delta)
       IN /\ arrays' = H.arrays /\ tensors' = H.tensors
          /\ last' = Call("setitem", <<t, i, j, delta>>, H)
          /\ calls' = Append(calls, Call("setitem", <<t, i, j, delta>>, H))
    /\ UNCHANGED <<names, pc, inp>>

NoInput == [X |-> Scalar(0), W |-> Scalar(0), B |-> Scalar(0), delta |-> 0, i |-> 0, j |-> 0]

Init ==
    /\ arrays = <<>> /\ tensors = <<>> /\ names = <<>>
    /\ last = [call |-> "none", args |-> <<>>, err |-> "none", ret |-> None, at |-> 0]
    /\ calls = <<>>
    /\ pc = "api"
    /\ inp = NoInput

Next ==
    \/ \E data \in LeafData, requires_grad \in BOOLEAN : Construct(data, requires_grad)
    \/ \E t \in Held : Neg(t)
    \/ \E t \in Held, u \in Held : Add(t, u)
    \/ \E t \in Held, u \in Held : Mul(t, u)
    \/ \E t \in Held, u \in Held : MatMul(t, u)
    \/ \E t \in Held : Sum(t)
    \/ \E t \in Held, seed \in Held \cup {None} : Backward(t, seed)
    \/ \E t \in Held : ZeroGrad(t)
    \/ \E t \in Held : Data(Here, t).nd = 2 /\ Mutate(t, 1, 1, 1)

Spec == Init /\ [][Next]_vars

(***************************************************************************)
(* A graph for a scalar loss: differentiable leaves, negate / add / matmul *)
(* / sum, then backward() from a scalar root and zero_grad().              *)
(***************************************************************************)
IsScalar(t) == Shape(Data(Here, t)) = <<>>

InitGraph ==
    /\ arrays = <<>> /\ tensors = <<>> /\ names = <<>>
    /\ last = [call |-> "none", args |-> <<>>, err |-> "none", ret |-> None, at |-> 0]
    /\ calls = <<>>
    /\ pc = "graph"
    /\ inp = NoInput

NextGraph ==
    \/ Construct(M22, TRUE)
    \/ \E t \in Held : Neg(t)
    \/ \E t \in Held, u \in Held : Add(t, u)
    \/ \E t \in Held, u \in Held : MatMul(t, u)
    \/ \E t \in Held : Sum(t)
    \/ \E t \in Held : IsScalar(t) /\ Backward(t, None)
    \/ \E t \in Held : ZeroGrad(t)

SpecGraph == InitGraph /\ [][NextGraph]_vars

(***************************************************************************)
(* Reading the heap: what the caller sees.                                 *)
(***************************************************************************)
Buffer(t) == arrays[tensors[t].data]
GradOf(t) == arrays[tensors[tensors[t].grad].data]
HasGrad(t) == tensors[t].grad # None

\* the value dep.grad_fn returns for an upstream gradient of value g
LocalGrad(dep, g) ==
    LET H1 == GradTensor(Here, Temp(g), FALSE, <<>>)
        H2 == grad_fn(H1, dep, H1.ret)
    IN Data(H2, H2.ret)

RECURSIVE Flatten(_)
Flatten(ss) == IF ss = <<>> THEN <<>> ELSE Head(ss) \o Flatten(Tail(ss))

\* The gradients that reach t from a default-seeded root, one for every
\* dependency path from root to t: the seed itself when t is the root, and
\* for every edge into t from a tensor u (created after t), the edge's
\* function applied to each gradient that reaches u.
RECURSIVE PathGrads(_, _)
PathGrads(root, t) ==
    (IF t = root THEN <<ones_like(Buffer(root))>> ELSE <<>>)
    \o Flatten([u \in 1..Len(tensors) |->
          IF u <= t THEN <<>>
          ELSE Flatten([k \in 1..Len(tensors[u].depends_on) |->
                  IF tensors[u].depends_on[k].inputs # t THEN <<>>
                  ELSE LET gs == PathGrads(root, u)
                       IN [n \in 1..Len(gs) |-> LocalGrad(tensors[u].depends_on[k], gs[n])]])])

RECURSIVE SumInto(_, _)
SumInto(acc, gs) == IF gs = <<>> THEN acc ELSE SumInto(np_add(acc, Head(gs)), Tail(gs))

PathSum(root, t) == SumInto(zeros_like(Buffer(t)), PathGrads(root, t))

OnePass == Len(calls) = 1 /\ calls[1].call = "backward" /\ calls[1].err = "none"
                /\ calls[1].args[2] = None /\ IsScalar(calls[1].args[1])

\* C1: after one backward() with the default seed from a scalar root on
\* freshly built tensors, the grad of every differentiable tensor is the sum,
\* over every dependency path from the root to it, of the composed
\* local-gradient functions applied to the all-ones seed.
C1_GradIsPathSum ==
    (pc = "graph" /\ OnePass) =>
        \A t \in 1..Len(tensors) :
            tensors[t].requires_grad => GradOf(t) = PathSum(calls[1].args[1], t)

\* a tensor used twice (two edges into it from one tensor) got both gradients
C1_Witness ==
    /\ pc = "graph" /\ OnePass
    /\ \E x \in Held :
          /\ Len(PathGrads(calls[1].args[1], x)) >= 2
          /\ \A i \in 1..Rows(GradOf(x)), j \in 1..Cols(GradOf(x)) : GradOf(x).v[i][j] = 2

\* A freshly constructed copy of the graph: the same buffers and edges, and
\* a new zero grad for every differentiable tensor.
FreshCopy ==
    LET n == Len(tensors)
    IN Heap(arrays \o [k \in 1..n |-> zeros_like(Buffer(k))],
            [k \in 1..n |-> IF tensors[k].requires_grad
                            THEN [tensors[k] EXCEPT !.grad = n + k] ELSE tensors[k]]
            \o [k \in 1..n |-> [data |-> Len(arrays) + k, requires_grad |-> FALSE,
                                grad |-> None, depends_on |-> <<>>]])

\* t.grad after a single root.backward() on the fresh copy
FreshGrad(root, t) ==
    LET H == backward(FreshCopy, root, None) IN Data(H, H.tensors[t].grad)

IsZero(a) == a = zeros_like(a)

Ok(c, name) == c.call = name /\ c.err = "none"

\* L.backward(), t.zero_grad(), L.backward()
PassZeroPass ==
    /\ Len(calls) = 3
    /\ Ok(calls[1], "backward") /\ Ok(calls[2], "zero_grad") /\ Ok(calls[3], "backward")
    /\ calls[1].args = calls[3].args /\ calls[1].args[2] = None

\* the step is t.zero_grad() returning normally
ZeroGradStep == calls' # calls /\ Ok(last', "zero_grad")

\* C7: zero_grad() on t changes only t.grad: every other tensor keeps its
\* grad (and every tensor its buffer and edges); and after L.backward(),
\* t.zero_grad(), L.backward(), t.grad is what a single L.backward() gives
\* on a freshly constructed copy of the graph.
C7_ZeroGradIsolated ==
    /\ [][ZeroGradStep =>
            LET t == last'.args[1] IN
            /\ \A u \in 1..Len(tensors) :
                  /\ u # t => tensors'[u] = tensors[u]
                  /\ tensors'[u].data = tensors[u].data
                  /\ tensors'[u].depends_on = tensors[u].depends_on
                  /\ tensors'[u].requires_grad = tensors[u].requires_grad
            /\ \A a \in 1..Len(arrays) : arrays'[a] = arrays[a]
            /\ LET g == arrays'[tensors'[tensors'[t].grad].data]
               IN IsZero(g) /\ Shape(g) = Shape(Buffer(t))]_vars
    /\ [](PassZeroPass =>
            GradOf(calls[2].args[1]) =
                FreshGrad(calls[1].args[1], calls[2].args[1]))

\* t and another tensor u both received gradient; t was zeroed between the
\* two passes and u was not
C7_Witness ==
    /\ PassZeroPass
    /\ ~IsZero(GradOf(calls[2].args[1]))
    /\ \E u \in Held : u # calls[2].args[1] /\ tensors[u].requires_grad
          /\ ~IsZero(GradOf(u)) /\ GradOf(u) # FreshGrad(calls[1].args[1], u)

(***************************************************************************)
(* Properties of single calls, over every call sequence of Spec.           *)
(***************************************************************************)
SeedValue(seed, t) == IF seed = None THEN ones_like(Buffer(t)) ELSE Buffer(seed)

\* c = a * b with a, b two distinct differentiable leaves of one shape
MulOfLeaves(c) ==
    /\ Len(tensors[c].depends_on) = 2
    /\ tensors[c].depends_on[1].op = "_mul"
    /\ LET a == tensors[c].depends_on[1].inputs
           b == tensors[c].depends_on[2].inputs
       IN /\ a # b
          /\ Shape(Buffer(a)) = Shape(Buffer(b))
          /\ tensors[a].depends_on = <<>> /\ tensors[b].depends_on = <<>>

\* C3: for same-shape differentiable a and b and c = multiply(a, b), a
\* backward pass through c completes and adds g (.) b.buffer to a.grad and
\* g (.) a.buffer to b.grad.
C3_MulBackward ==
    [][(calls' # calls /\ last'.call = "backward" /\ MulOfLeaves(last'.args[1])
            /\ Shape(SeedValue(last'.args[2], last'.args[1])) = Shape(Buffer(last'.args[1])))
        => LET c == last'.args[1]
               g == SeedValue(last'.args[2], c)
               a == tensors[c].depends_on[1].inputs
               b == tensors[c].depends_on[2].inputs
           IN /\ last'.err = "none"
              /\ arrays'[tensors'[tensors'[a].grad].data] = np_add(GradOf(a), np_mul(g, Buffer(b)))
              /\ arrays'[tensors'[tensors'[b].grad].data] = np_add(GradOf(b), np_mul(g, Buffer(a)))
      ]_vars

\* C4: add and multiply on operands whose shapes are not identical always
\* fail with a shape mismatch, construct nothing and change nothing.
C4_ShapeMismatchRejected ==
    [][(last' # last /\ last'.call \in {"add", "mul"}
            /\ Shape(Buffer(last'.args[1])) # Shape(Buffer(last'.args[2])))
        => /\ last'.err = "ValueError"
           /\ tensors' = tensors /\ arrays' = arrays /\ names' = names
      ]_vars

\* C5: every tensor that has a grad has one of the shape of its own buffer.
C5_GradShape ==
    \A t \in 1..Len(tensors) : HasGrad(t) => Shape(GradOf(t)) = Shape(Buffer(t))

Operations == {"neg", "add", "mul", "matmul", "sum"}

RgOperands(c) == {c.args[n] : n \in {m \in 1..Len(c.args) : tensors[c.args[m]].requires_grad}}
EdgeTargets(t) == {tensors[t].depends_on[k].inputs : k \in 1..Len(tensors[t].depends_on)}

\* C6: a result has no edge to an operand that does not require grad; such a
\* tensor never has a grad slot, and a backward() from a differentiable
\* tensor never reaches one (it never fails on the requires_grad assertion).
C6_NonDifferentiable ==
    /\ \A t \in 1..Len(tensors) :
          /\ \A u \in EdgeTargets(t) : tensors[u].requires_grad
          /\ ~tensors[t].requires_grad => ~HasGrad(t) /\ tensors[t].depends_on = <<>>
    /\ (last.call \in Operations /\ last.err = "none")
          => EdgeTargets(last.ret) = RgOperands(last)
    /\ \A n \in 1..Len(calls) :
          (calls[n].call = "backward" /\ tensors[calls[n].args[1]].requires_grad)
              => calls[n].err # "AssertionError"

\* a backward() went through a result one of whose two operands does not
\* require grad
C6_Witness ==
    /\ Ok(last, "backward")
    /\ \E t \in Held, u \in Held :
          /\ ~tensors[u].requires_grad /\ tensors[t].requires_grad
          /\ tensors[t].depends_on # <<>>
          /\ u \in {tensors[t].depends_on[1].input1, tensors[t].depends_on[1].input2}
          /\ (t = last.args[1] \/ t \in EdgeTargets(last.args[1]))
          /\ ~IsZero(GradOf(t))

\* C8: zero_grad() or backward() on a tensor that does not require grad fails
\* with the assertion and leaves every object as it was.
C8_InvalidCallNoEffect ==
    [][(calls' # calls /\ last'.call \in {"zero_grad", "backward"}
            /\ ~tensors[last'.args[1]].requires_grad)
        => /\ last'.err = "AssertionError"
           /\ tensors' = tensors /\ arrays' = arrays
      ]_vars

\* backward(seed) was refused on a tensor that does not require grad
C8_Witness ==
    /\ last.call = "backward" /\ last.err = "AssertionError"
    /\ last.args[2] # None
    /\ ~tensors[last.args[1]].requires_grad

\* the heap as it would be had the mutation calls[1] not been made, with
\* fresh grads
Unmutated ==
    LET c == calls[1]
    IN [FreshCopy EXCEPT !.arrays[tensors[c.args[1]].data].v[c.args[2]][c.args[3]] = @ - c.args[4]]

\* C10: a buffer mutated after the forward operation and before backward()
\* does not change the gradients backward() accumulates.
C10_SnapshotAtForward ==
    (/\ Len(calls) = 2 /\ Ok(calls[1], "setitem")
     /\ calls[2].call = "backward" /\ calls[2].args[2] = None
     /\ calls[2].args[1] <= calls[1].at /\ tensors[calls[2].args[1]].requires_grad)
    => LET H == backward(Unmutated, calls[2].args[1], None)
       IN \A t \in 1..calls[1].at :
            tensors[t].requires_grad => GradOf(t) = Data(H, H.tensors[t].grad)

(***************************************************************************)
(* L = sum(A @ B) for leaves A (m x k) and B (k x n) drawn from the        *)
(* matrices with extents in Dims and entries in -1..MaxVal.                *)
(***************************************************************************)
Dims == {1, 2}
Vals == -1..MaxVal
Matrices(r, c) == {Mat(v) : v \in [1..r -> [1..c -> Vals]]}

InitMatmul ==
    /\ arrays = <<>> /\ tensors = <<>> /\ names = <<>>
    /\ last = [call |-> "none", args |-> <<>>, err |-> "none", ret |-> None, at |-> 0]
    /\ calls = <<>>
    /\ pc = "A"
    /\ \E m \in Dims, k \in Dims, n \in Dims :
          \E A \in Matrices(m, k), B \in Matrices(k, n) :
             inp = [A |-> A, B |-> B]

\* A = GradTensor(..., requires_grad=True)
MatmulA ==
    /\ pc = "A" /\ pc' = "B"
    /\ LET H == GradTensor(Here, Temp(inp.A), TRUE, <<>>)
       IN /\ arrays' = H.arrays /\ tensors' = H.tensors /\ names' = Returned(H)
          /\ last' = Call("GradTensor", <<>>, H)
    /\ UNCHANGED <<calls, inp>>

\* B = GradTensor(..., requires_grad=True)
MatmulB ==
    /\ pc = "B" /\ pc' = "A @ B"
    /\ LET H == GradTensor(Here, Temp(inp.B), TRUE, <<>>)
       IN /\ arrays' = H.arrays /\ tensors' = H.tensors /\ names' = Returned(H)
          /\ last' = Call("GradTensor", <<>>, H)
    /\ UNCHANGED <<calls, inp>>

\* C = A @ B
MatmulProduct ==
    /\ pc = "A @ B" /\ pc' = "sum"
    /\ LET H == _matmul(Here, names[1], names[2])
       IN /\ arrays' = H.arrays /\ tensors' = H.tensors /\ names' = Returned(H)
          /\ last' = Call("matmul", <<names[1], names[2]>>, H)
    /\ UNCHANGED <<calls, inp>>

\* L = C.sum()
MatmulSum ==
    /\ pc = "sum" /\ pc' = "backward"
    /\ LET H == tensor_sum(Here, names[3])
       IN /\ arrays' = H.arrays /\ tensors' = H.tensors /\ names' = Returned(H)
          /\ last' = Call("sum", <<names[3]>>, H)
    /\ UNCHANGED <<calls, inp>>

\* L.backward()
MatmulBackward ==
    /\ pc = "backward" /\ pc' = "done"
    /\ LET H == backward(Here, names[4], None)
       IN /\ arrays' = H.arrays /\ tensors' = H.tensors
          /\ last' = Call("backward", <<names[4], None>>, H)
          /\ calls' = Append(calls, Call("backward", <<names[4], None>>, H))
    /\ UNCHANGED <<names, inp>>

NextMatmul == MatmulA \/ MatmulB \/ MatmulProduct \/ MatmulSum \/ MatmulBackward

SpecMatmul == InitMatmul /\ [][NextMatmul]_vars

\* C2: after L.backward() for L = sum(A @ B), A.grad = ones(m,n) @ B^T and
\* B.grad = A^T @ ones(m,n): A.grad[i][k] is the sum of row k of B and
\* B.grad[k][j] the sum of column k of A.
C2_MatmulGradient ==
    pc = "done" =>
        LET A == inp.A
            B == inp.B
            m == Rows(A)
            k == Cols(A)
            n == Cols(B)
        IN /\ last.err = "none"
           /\ GradOf(names[1]) =
                Mat([i \in 1..m |-> [c \in 1..k |-> SumTo([j \in 1..n |-> B.v[c][j]], n)]])
           /\ GradOf(names[2]) =
                Mat([c \in 1..k |-> [j \in 1..n |-> SumTo([i \in 1..m |-> A.v[i][c]], m)]])

\* a pass with m, k and n not all equal and the two gradients not zero
C2_Witness ==
    /\ pc = "done"
    /\ Rows(inp.A) = 1 /\ Cols(inp.A) = 2 /\ Cols(inp.B) = 2
    /\ ~IsZero(GradOf(names[1])) /\ ~IsZero(GradOf(names[2]))
    /\ GradOf(names[1]).v[1][1] # GradOf(names[1]).v[1][2]

(***************************************************************************)
(* main.py, statement by statement (pc is the line about to run).  The     *)
(* random buffers and delta are inputs; the perturbed entry, [0, 0] in     *)
(* main.py, is an input too.                                               *)
(***************************************************************************)
XRows == 2
XCols == 3
WCols == 2
Deltas == {1, 2}
WData == {Mat(<<<<1, 2>>, <<3, 4>>, <<5, 6>>>>), Mat(<<<<0, -1>>, <<2, 0>>, <<-3, 1>>>>)}
BData == {Mat(<<<<0, 0>>, <<0, 0>>>>), Mat(<<<<1, -2>>, <<3, 4>>>>)}

InitMain ==
    /\ arrays = <<>> /\ tensors = <<>> /\ names = <<>>
    /\ last = [call |-> "none", args |-> <<>>, err |-> "none", ret |-> None, at |-> 0]
    /\ calls = <<>>
    /\ pc = "6"
    /\ \E X \in {Mat(v) : v \in [1..XRows -> [1..XCols -> 0..MaxVal]]}, W \in WData, B \in BData :
          \E delta \in Deltas, i \in 1..XCols, j \in 1..WCols :
             inp = [X |-> X, W |-> W, B |-> B, delta |-> delta, i |-> i, j |-> j]

\* the script's variables, in the order they are bound
tensor_x == names[1]
tensor_w == names[2]
tensor_b == names[3]
matmul_result == names[4]
matmul_with_bias == names[5]
L == names[6]
tensor_x_ == names[7]
tensor_w_ == names[8]
tensor_b_ == names[9]
matmul_result_ == names[10]
matmul_with_bias_ == names[11]
L_ == names[12]

\* line 6: tensor_x = GradTensor(np.random.rand(2, 3), requires_grad=False)
Main06 ==
    /\ pc = "6" /\ pc' = "7"
    /\ LET H == GradTensor(Here, Temp(inp.X), FALSE, <<>>)
       IN /\ arrays' = H.arrays /\ tensors' = H.tensors
          /\ names' = Returned(H)
          /\ last' = Call("GradTensor", <<>>, H)
    /\ UNCHANGED <<calls, inp>>

\* line 7: tensor_w = GradTensor(np.random.rand(3, 2), requires_grad=True)
Main07 ==
    /\ pc = "7" /\ pc' = "8"
    /\ LET H == GradTensor(Here, Temp(inp.W), TRUE, <<>>)
       IN /\ arrays' = H.arrays /\ tensors' = H.tensors
          /\ names' = Returned(H)
          /\ last' = Call("GradTensor", <<>>, H)
    /\ UNCHANGED <<calls, inp>>

\* line 8: tensor_b = GradTensor(np.random.rand(2, 2), requires_grad=True)
Main08 ==
    /\ pc = "8" /\ pc' = "13"
    /\ LET H == GradTensor(Here, Temp(inp.B), TRUE, <<>>)
       IN /\ arrays' = H.arrays /\ tensors' = H.tensors
          /\ names' = Returned(H)
          /\ last' = Call("GradTensor", <<>>, H)
    /\ UNCHANGED <<calls, inp>>

\* line 13: matmul_result = tensor_x @ tensor_w
Main13 ==
    /\ pc = "13" /\ pc' = "15"
    /\ LET H == _matmul(Here, tensor_x, tensor_w)
       IN /\ arrays' = H.arrays /\ tensors' = H.tensors
          /\ names' = Returned(H)
          /\ last' = Call("matmul", <<tensor_x, tensor_w>>, H)
    /\ UNCHANGED <<calls, inp>>

\* line 15: matmul_with_bias = matmul_result + tensor_b
Main15 ==
    /\ pc = "15" /\ pc' = "18"
    /\ LET H == _add(Here, matmul_result, tensor_b)
       IN /\ arrays' = H.arrays /\ tensors' = H.tensors
          /\ names' = Returned(H)
          /\ last' = Call("add", <<matmul_result, tensor_b>>, H)
    /\ UNCHANGED <<calls, inp>>

\* line 18: L = matmul_with_bias.sum()
Main18 ==
    /\ pc = "18" /\ pc' = "22"
    /\ LET H == tensor_sum(Here, matmul_with_bias)
       IN /\ arrays' = H.arrays /\ tensors' = H.tensors
          /\ names' = Returned(H)
          /\ last' = Call("sum", <<matmul_with_bias>>, H)
    /\ UNCHANGED <<calls, inp>>

\* line 22: L.backward()
Main22 ==
    /\ pc = "22" /\ pc' = "27"
    /\ LET H == backward(Here, L, None)
       IN /\ arrays' = H.arrays /\ tensors' = H.tensors
          /\ names' = names
          /\ last' = Call("backward", <<L, None>>, H)
          /\ calls' = Append(calls, Call("backward", <<L, None>>, H))
    /\ UNCHANGED inp

\* line 27: tensor_x_ = GradTensor(tensor_x.data, requires_grad=False)
Main27 ==
    /\ pc = "27" /\ pc' = "28"
    /\ LET H == GradTensor(Here, Existing(Here, tensors[tensor_x].data), FALSE, <<>>)
       IN /\ arrays' = H.arrays /\ tensors' = H.tensors
          /\ names' = Returned(H)
          /\ last' = Call("GradTensor", <<>>, H)
    /\ UNCHANGED <<calls, inp>>

\* line 28: tensor_w_ = GradTensor(tensor_w.data, requires_grad=False)
Main28 ==
    /\ pc = "28" /\ pc' = "29"
    /\ LET H == GradTensor(Here, Existing(Here, tensors[tensor_w].data), FALSE, <<>>)
       IN /\ arrays' = H.arrays /\ tensors' = H.tensors
          /\ names' = Returned(H)
          /\ last' = Call("GradTensor", <<>>, H)
    /\ UNCHANGED <<calls, inp>>

\* line 29: tensor_w_.data[0, 0] += delta, at the entry inp.i, inp.j
Main29 ==
    /\ pc = "29" /\ pc' = "30"
    /\ LET H == setitem_add(Here, tensor_w_, inp.i, inp.j, inp.delta)
       IN /\ arrays' = H.arrays /\ tensors' = H.tensors
          /\ names' = names
          /\ last' = Call("setitem", <<tensor_w_, inp.i, inp.j, inp.delta>>, H)
          /\ calls' = Append(calls, Call("setitem", <<tensor_w_, inp.i, inp.j, inp.delta>>, H))
    /\ UNCHANGED inp

\* line 30: tensor_b_ = GradTensor(tensor_b.data, requires_grad=False)
Main30 ==
    /\ pc = "30" /\ pc' = "32"
    /\ LET H == GradTensor(Here, Existing(Here, tensors[tensor_b].data), FALSE, <<>>)
       IN /\ arrays' = H.arrays /\ tensors' = H.tensors
          /\ names' = Returned(H)
          /\ last' = Call("GradTensor", <<>>, H)
    /\ UNCHANGED <<calls, inp>>

\* line 32: matmul_result_ = tensor_x_ @ tensor_w_
Main32 ==
    /\ pc = "32" /\ pc' = "33"
    /\ LET H == _matmul(Here, tensor_x_, tensor_w_)
       IN /\ arrays' = H.arrays /\ tensors' = H.tensors
          /\ names' = Returned(H)
          /\ last' = Call("matmul", <<tensor_x_, tensor_w_>>, H)
    /\ UNCHANGED <<calls, inp>>

\* line 33: matmul_with_bias_ = matmul_result_ + tensor_b_
Main33 ==
    /\ pc = "33" /\ pc' = "34"
    /\ LET H == _add(Here, matmul_result_, tensor_b_)
       IN /\ arrays' = H.arrays /\ tensors' = H.tensors
          /\ names' = Returned(H)
          /\ last' = Call("add", <<matmul_result_, tensor_b_>>, H)
    /\ UNCHANGED <<calls, inp>>

\* line 34: L_ = matmul_with_bias_.sum()
Main34 ==
    /\ pc = "34" /\ pc' = "done"
    /\ LET H == tensor_sum(Here, matmul_with_bias_)
       IN /\ arrays' = H.arrays /\ tensors' = H.tensors
          /\ names' = Returned(H)
          /\ last' = Call("sum", <<matmul_with_bias_>>, H)
    /\ UNCHANGED <<calls, inp>>

NextMain ==
    \/ Main06
    \/ Main07
    \/ Main08
    \/ Main13
    \/ Main15
    \/ Main18
    \/ Main22
    \/ Main27
    \/ Main28
    \/ Main29
    \/ Main30
    \/ Main32
    \/ Main33
    \/ Main34

SpecMain == InitMain /\ [][NextMain]_vars

\* lines 27-34: the perturbed recomputation
Recomputing == pc \in {"27", "28", "29", "30", "32", "33", "34"}

\* the tensors of lines 6-18
Originals == {tensor_x, tensor_w, tensor_b, matmul_result, matmul_with_bias, L}

\* C9: the analytic W.grad[i][j] agrees with the finite difference
\* (L_ - L) / delta of the recomputation from perturbed non-differentiable
\* copies, and the recomputation changes neither the buffers nor the grads
\* of the original tensors.
C9_FiniteDifference ==
    /\ [](pc = "done" =>
            LET d == Buffer(L_).v[1][1] - Buffer(L).v[1][1]
            IN /\ d % inp.delta = 0
               /\ d \div inp.delta = GradOf(tensor_w).v[inp.i][inp.j]
               /\ Buffer(tensor_x) = inp.X /\ Buffer(tensor_w) = inp.W
               /\ Buffer(tensor_b) = inp.B)
    /\ [][Recomputing =>
            \A t \in Originals :
                /\ arrays'[tensors'[t].data] = Buffer(t)
                /\ tensors'[t] = tensors[t]
                /\ HasGrad(t) => arrays'[tensors'[tensors'[t].grad].data] = GradOf(t)]_vars

\* a run in which the perturbation changed the loss
C9_Witness ==
    /\ pc = "done"
    /\ Buffer(L_) # Buffer(L)
    /\ Buffer(tensor_w_) # Buffer(tensor_w)
    /\ GradOf(tensor_w).v[inp.i][inp.j] > 0

====
